---- MODULE Spec2Model ----
(***************************************************************************)
(* Model of the Telegram torrent-search bot: the search adapter            *)
(* (scraper.py), the file transfer (file_handler.py) and the message and   *)
(* callback handlers with the process-wide session mapping                 *)
(* (standalone_bot.py).                                                    *)
(*                                                                         *)
(* Specifications:                                                         *)
(*   Spec          the bot: handlers run on worker threads and interleave  *)
(*                 at every access to shared state (sessions, disk);       *)
(*   SpecSearch    WebScraper.search_files applied to bounded inputs;      *)
(*   SpecDownload  FileHandler.download_file / cleanup_file applied to     *)
(*                 bounded inputs;                                         *)
(*   SpecSeq       the bot handling one update at a time, with the         *)
(*                 history of the keyboards shown to each user;            *)
(*   SpecMessage   one free-text message, over a larger set of texts;      *)
(*   SpecOwn       the bot with two users who search for different things, *)
(*                 with the history of the lists stored for each user;     *)
(*   SpecRace      a file selection split at each read of the session      *)
(*                 mapping, racing with searches of the same user;         *)
(*   SpecMagnet    WebScraper.get_magnet_link applied to bounded inputs;   *)
(*   SpecRun       TelegramBot.run, the polling loop.                      *)
(***************************************************************************)
EXTENDS Integers, Sequences, FiniteSets, TLC

VARIABLES user_sessions, disk, th, searchIn, searchOut, dlIn, dlOut,
          shown, stored, run, mgIn, mgOut

vars == <<user_sessions, disk, th, searchIn, searchOut, dlIn, dlOut,
          shown, stored, run, mgIn, mgOut>>

(***************************************************************************)
(* Bounds of the model.                                                    *)
(***************************************************************************)
MaxMovies == 2
MaxTorrents == 2
MaxSeeds == 1
MaxFiles == 2
MaxIndex == 2
\* the long API responses carry this many torrents more than the result limit
MaxExtra == 2
\* the number of nested calls of run the interpreter allows
\* (sys.getrecursionlimit() is 1000 unless changed; nothing in src changes it)
RecursionLimit == 1000
\* the longest torrent hash and the longest title given to get_magnet_link
MaxHashLen == 2
\* the largest number of fragments a message text of SpecMessage is made of
MaxPieces == 3
MaxTitleLen == 3

(***************************************************************************)
(* Program constants.                                                      *)
(***************************************************************************)
MAX_FILE_SIZE == 50 * 1024 * 1024
RESULT_LIMIT == 10

None == "None"

Min(a, b) == IF a < b THEN a ELSE b

(***************************************************************************)
(* str.lower() on the strings the model uses.                              *)
(***************************************************************************)
Lower(s) ==
    CASE s = "720P" -> "720p"
      [] s = "1080P" -> "1080p"
      [] s = "2160P" -> "2160p"
      [] s = "P" -> "p"
      [] s = "M" -> "m"
      [] OTHER -> s

(***************************************************************************)
(* WebScraper.search_files                                                 *)
(*                                                                         *)
(* An API outcome is a record                                              *)
(*   kind        "neterr"  session.get raised                              *)
(*               "httperr" raise_for_status raised                         *)
(*               "badjson" response.json() raised                          *)
(*               "json"    a JSON object was decoded                       *)
(*   status      the 'status' field                                        *)
(*   movie_count the 'data.movie_count' field                              *)
(*   movies      the 'data.movies' list; a movie is [id, torrents] and a   *)
(*               torrent is [quality, seeds, url]                          *)
(***************************************************************************)
Falsy(file_type) == file_type = None \/ file_type = ""

\* the comparison of line 68 written without lower()
QualityMatchesCaseSensitive(file_type, quality) ==
    Falsy(file_type) \/ file_type = quality

\* line 68: a torrent is kept unless a filter is given and differs
QualityMatches(file_type, quality) ==
    Falsy(file_type) \/ Lower(file_type) = Lower(quality)

ResultEntry(movie, torrent) ==
    [movie_id |-> movie.id, url |-> torrent.url,
     seeds |-> torrent.seeds, quality |-> torrent.quality]

RECURSIVE TorrentLoop(_, _, _)
\* inner loop, lines 64-87
TorrentLoop(movie, ts, file_type) ==
    IF ts = <<>> THEN <<>>
    ELSE (IF QualityMatches(file_type, Head(ts).quality)
             THEN <<ResultEntry(movie, Head(ts))>> ELSE <<>>)
         \o TorrentLoop(movie, Tail(ts), file_type)

RECURSIVE MovieLoop(_, _)
\* outer loop, lines 57-87
MovieLoop(movies, file_type) ==
    IF movies = <<>> THEN <<>>
    ELSE TorrentLoop(Head(movies), Head(movies).torrents, file_type)
         \o MovieLoop(Tail(movies), file_type)

RECURSIVE InsertDesc(_, _)
\* insert x after every element whose seeds are >= x.seeds (stable)
InsertDesc(sorted, x) ==
    IF sorted = <<>> THEN <<x>>
    ELSE IF Head(sorted).seeds >= x.seeds
            THEN <<Head(sorted)>> \o InsertDesc(Tail(sorted), x)
            ELSE <<x>> \o sorted

RECURSIVE SortBySeeds(_)
\* line 90: list.sort(key=seeds, reverse=True) is stable
SortBySeeds(rs) ==
    IF rs = <<>> THEN <<>>
    ELSE InsertDesc(SortBySeeds(SubSeq(rs, 1, Len(rs) - 1)), rs[Len(rs)])

\* the list left in the order of the API response
SortSkipped(rs) == rs

\* line 90
Sorted(rs) == SortBySeeds(rs)

\* line 92: results[:10]
Truncate(rs) == SubSeq(rs, 1, Min(Len(rs), RESULT_LIMIT))

\* a status check that accepts every decoded body
ApiStatusOkLoose(api) == TRUE

\* line 46: data.get('status') != 'ok' returns []
ApiStatusOk(api) == api.status = "ok"

\* line 94: except Exception catches everything the body raises
Caught(exc) == TRUE

\* lines 30-92, the body of the try: the exception it raises ("none" when it
\* returns) and the value it returns
SearchBody(api, file_type) ==
    IF api.kind # "json" THEN [exc |-> api.kind, ret |-> <<>>]
    ELSE IF ~ApiStatusOk(api) THEN [exc |-> "none", ret |-> <<>>]
    ELSE IF api.movie_count = 0 THEN [exc |-> "none", ret |-> <<>>]
    ELSE [exc |-> "none",
          ret |-> Truncate(Sorted(MovieLoop(api.movies, file_type)))]

\* lines 17-96
search_files(api, file_type) ==
    LET b == SearchBody(api, file_type) IN
    IF b.exc = "none" THEN [raised |-> FALSE, ret |-> b.ret]
    ELSE IF Caught(b.exc) THEN [raised |-> FALSE, ret |-> <<>>]
    ELSE [raised |-> TRUE, ret |-> <<>>]

(***************************************************************************)
(* FileHandler.download_file and FileHandler.cleanup_file                  *)
(*                                                                         *)
(* The download directory is the set of file names that exist in it.  An   *)
(* HTTP outcome is a record                                                *)
(*   kind           "connerr" session.get raised a RequestException        *)
(*                  "httperr" raise_for_status raised                      *)
(*                  "badlen"  the Content-Length header is not an integer  *)
(*                  "ok"      headers were received                        *)
(*   content_length the declared Content-Length (0 when absent)            *)
(*   stream         "ok" or "fail": whether iter_content delivers the body *)
(*                  or raises while the file is open                       *)
(***************************************************************************)
NoPath == 0

\* a size check against twice the ceiling
TooLargeDoubled(content_length) == content_length > MAX_FILE_SIZE * 2

\* line 59
TooLarge(content_length) == content_length > MAX_FILE_SIZE

DlResult(success, file_path, error, d) ==
    [success |-> success, file_path |-> file_path, error |-> error, disk |-> d]

\* lines 23-76; name is the file name of lines 39-50
download_file(url, http, name, d) ==
    IF url = "" THEN DlResult(FALSE, NoPath, "URL is empty", d)
    ELSE IF http.kind \in {"connerr", "httperr"}
        THEN DlResult(FALSE, NoPath, "Download error", d)
    ELSE IF http.kind = "badlen"
        THEN DlResult(FALSE, NoPath, "Unexpected error", d)
    ELSE IF TooLarge(http.content_length)
        THEN DlResult(FALSE, NoPath, "File too large", d)
    ELSE IF http.stream = "fail"
        THEN DlResult(FALSE, NoPath, "Download error", d \cup {name})
    ELSE DlResult(TRUE, name, None, d \cup {name})

\* lines 78-90
cleanup_file(file_path, d) == d \ {file_path}

FileNames == 1..MaxFiles

ContentLengths == {0, 1, MAX_FILE_SIZE, MAX_FILE_SIZE + 1}

HttpOutcomes ==
    [kind : {"connerr", "httperr", "badlen"}, content_length : {0}, stream : {"ok"}]
    \cup [kind : {"ok"}, content_length : ContentLengths, stream : {"ok", "fail"}]

\* the random file name of line 41, never one that is already taken
FreshName(d) ==
    IF FileNames \ d = {} THEN NoPath
    ELSE CHOOSE n \in FileNames \ d : \A m \in FileNames \ d : n <= m

(***************************************************************************)
(* The bot (standalone_bot.py).                                            *)
(*                                                                         *)
(* user_sessions  the module-level dict: a function from the user ids that *)
(*                have an entry to their record                            *)
(* disk           the files in DOWNLOAD_DIR                                *)
(* th             the worker threads of the TeleBot pool; th[w] holds the  *)
(*                handler running on w, its locals, the bot API calls it   *)
(*                has issued (calls) and whether an exception left it      *)
(*                (escaped)                                                *)
(*                                                                         *)
(* A message text, and a query, is the sequence of its characters.  A      *)
(* callback payload is                                                     *)
(*   [tag |-> "file_int", i |-> k]  the string file_<k>, k an integer      *)
(*   [tag |-> "file_bad", i |-> 0]  file_ followed by no integer           *)
(*   [tag |-> "other", i |-> 0]     a string that does not begin with file_*)
(* Every bot API call (send_message, edit_message_text,                    *)
(* answer_callback_query, send_document) either returns or raises.         *)
(***************************************************************************)
Users == {"u1", "u2"}

Workers == {"w1", "w2"}

Payloads ==
    [tag : {"file_int"}, i : (0 - MaxIndex)..MaxIndex]
    \cup [tag : {"file_bad", "other"}, i : {0}]

\* the texts "M", "720P M", "720p" and "/f"
BotTexts ==
    {<<"M">>, <<"7", "2", "0", "P", " ", "M">>, <<"7", "2", "0", "p">>,
     <<"/", "f">>}

T720 == [quality |-> "720p", seeds |-> 1, url |-> "a.torrent"]

T1080 == [quality |-> "1080P", seeds |-> 2, url |-> "b.torrent"]

JsonOk(movies) ==
    [kind |-> "json", status |-> "ok", movie_count |-> Len(movies), movies |-> movies]

OneMovie == JsonOk(<<[id |-> 1, torrents |-> <<T720, T1080>>]>>)

\* the API outcomes the bot meets in Spec
BotApiOutcomes ==
    {[kind |-> "neterr", status |-> "", movie_count |-> 0, movies |-> <<>>],
     JsonOk(<<>>),
     OneMovie}

\* no API outcome met yet
NoApi == [kind |-> "none", status |-> "", movie_count |-> 0, movies |-> <<>>]

NoEntry == [movie_id |-> 0, url |-> "", seeds |-> 0, quality |-> ""]

NoData == [tag |-> "other", i |-> 0]

IdleThread ==
    [kind |-> "idle", pc |-> "idle", user |-> "nobody", data |-> NoData,
     text |-> <<>>, query |-> <<>>, file_type |-> None, results |-> <<>>,
     file_index |-> 0, selected |-> NoEntry, url |-> "", file_path |-> NoPath,
     api |-> NoApi, calls |-> {}, sent |-> FALSE, escaped |-> FALSE]

\* line 116
IsCommand(text) == text # <<>> /\ text[1] = "/"

quality_options == <<"720p", "1080p", "2160p">>

LowerText(text) == [k \in DOMAIN text |-> Lower(text[k])]

\* the characters of a quality option
QualityChars(q) ==
    CASE q = "720p" -> <<"7", "2", "0", "p">>
      [] q = "1080p" -> <<"1", "0", "8", "0", "p">>
      [] q = "2160p" -> <<"2", "1", "6", "0", "p">>

\* pat is in text at position k
OccursAt(text, pat, k) ==
    k + Len(pat) - 1 <= Len(text) /\ SubSeq(text, k, k + Len(pat) - 1) = pat

\* a test that does not lower-case the text
HasQualityCaseSensitive(text, q) ==
    \E k \in DOMAIN text : OccursAt(text, QualityChars(q), k)

\* line 126: quality.lower() in message_text.lower()
HasQuality(text, q) ==
    \E k \in DOMAIN text : OccursAt(LowerText(text), QualityChars(Lower(q)), k)

\* lines 125-130: the first option found, tried in the order of the list
FirstQuality(text) ==
    IF \E j \in DOMAIN quality_options : HasQuality(text, quality_options[j])
    THEN quality_options[CHOOSE j \in DOMAIN quality_options :
             /\ HasQuality(text, quality_options[j])
             /\ \A m \in 1..(j - 1) : ~HasQuality(text, quality_options[m])]
    ELSE None

RECURSIVE Replace(_, _)
\* str.replace(pat, ''): every occurrence, found from left to right
Replace(text, pat) ==
    IF text = <<>> THEN <<>>
    ELSE IF OccursAt(text, pat, 1)
    THEN Replace(SubSeq(text, Len(pat) + 1, Len(text)), pat)
    ELSE <<Head(text)>> \o Replace(Tail(text), pat)

\* line 129: replace(quality.lower(), '')
RemoveWord(text, q) == Replace(text, QualityChars(Lower(q)))

RECURSIVE StripLeft(_)
StripLeft(text) ==
    IF text # <<>> /\ Head(text) = " " THEN StripLeft(Tail(text)) ELSE text

RECURSIVE StripRight(_)
StripRight(text) ==
    IF text # <<>> /\ text[Len(text)] = " "
    THEN StripRight(SubSeq(text, 1, Len(text) - 1)) ELSE text

\* str.strip()
Strip(text) == StripRight(StripLeft(text))

\* lines 119-132
ParseMessage(text) ==
    LET message_text == Strip(text)
        q == FirstQuality(message_text)
    IN  IF q = None THEN [file_type |-> None, query |-> Strip(message_text)]
        ELSE [file_type |-> Lower(q),
              query |-> Strip(Strip(RemoveWord(LowerText(message_text), q)))]

\* the labels of the calls issued when the k-th call of the list raises
\* (failAt = 0: none raises)
Issued(labels, failAt) ==
    {labels[k] : k \in 1..(IF failAt = 0 THEN Len(labels) ELSE failAt)}

\* lines 188-199: the except clause of process_message
MsgExcept(failAt) == IF failAt = 0 THEN {} ELSE {"searcherr"}

\* lines 321-333: the except clause of _handle_file_selection
SelExcept(failAt) == IF failAt = 0 THEN {} ELSE {"selerr"}

\* a check that never takes the empty-result branch
NoResultsNever(results) == FALSE

\* line 153: not results
NoResults(results) == results = <<>>

\* the keyboards shown so far: for each user the result lists whose messages,
\* one button file_<i> per entry, are in the chat; <<>> in the specifications
\* that do not record it
NotRecorded == <<>>

\* lines 170-186: the result message carries one button per result
RecordShown(h, u, results) ==
    IF h = NotRecorded THEN h
    ELSE [h EXCEPT ![u] = @ \cup {results}]

\* the stores made so far: for each user the result lists that a search of
\* the user has put into the user's session; <<>> in the specifications that
\* do not record it
RecordStored(h, u, results) ==
    IF h = NotRecorded THEN h
    ELSE [h EXCEPT ![u] = @ \cup {results}]

SessionRecord(results, query, file_type) ==
    [search_results |-> results, query |-> query, file_type |-> file_type]

\* an assignment that rebinds the whole mapping
StoreSessionRebind(sessions, u, rec) == (u :> rec)

\* an assignment that keeps an entry that is already there
StoreSessionSetDefault(sessions, u, rec) ==
    IF u \in DOMAIN sessions THEN sessions ELSE (u :> rec) @@ sessions

\* a store that only replaces the result list of an entry that is there
StoreSessionMerge(sessions, u, rec) ==
    IF u \in DOMAIN sessions
    THEN [sessions EXCEPT ![u].search_results = rec.search_results]
    ELSE (u :> rec) @@ sessions

\* lines 163-168
StoreSession(sessions, u, rec) == (u :> rec) @@ sessions

\* a read that takes the entry of user u1 whenever there is one
ReadResultsFirstUser(sessions, u) ==
    sessions[IF "u1" \in DOMAIN sessions THEN "u1" ELSE u].search_results

\* line 232: user_sessions[user_id]['search_results'], user_id the sender of
\* the callback (line 203)
ReadResults(sessions, u) == sessions[u].search_results

\* an access that always takes the first entry
ListGetFirst(list, file_index) == list[1]

\* a dispatch without the else branch
IsFileSelectionAlways(data) == TRUE

\* line 209: call.data.startswith("file_")
IsFileSelection(data) == data.tag \in {"file_int", "file_bad"}

\* a membership test that passes as soon as anybody has a session
HasSessionAnyUser(sessions, u) == DOMAIN sessions # {}

\* line 222; a record always has the key 'search_results'
HasSession(sessions, u) == u \in DOMAIN sessions

\* a bounds check that lets the index n through
OutOfRangeOffByOne(file_index, n) == file_index > n

\* line 233
OutOfRange(file_index, n) == file_index >= n

\* line 237: indexing a Python list; the model's sequences start at 1
ListIndexValid(file_index, n) == (0 - n) <= file_index /\ file_index < n

ListGet(list, file_index) ==
    IF file_index >= 0 THEN list[file_index + 1]
    ELSE list[Len(list) + file_index + 1]

\* the handler returns: its locals are gone, the update it handled and what
\* it did stay observable until the worker thread takes the next update
Finish(t, calls, escaped) ==
    [IdleThread EXCEPT !.kind = t.kind, !.pc = "done", !.user = t.user,
                       !.data = t.data, !.text = t.text, !.api = t.api,
                       !.file_path = t.file_path, !.sent = t.sent,
                       !.calls = calls, !.escaped = escaped]

\* the variables of the other specifications
others == <<searchIn, searchOut, dlIn, dlOut, run, mgIn, mgOut>>

harness == <<others, shown, stored>>

(***************************************************************************)
(* process_message, lines 109-199                                          *)
(***************************************************************************)
\* lines 109-148: a text message arrives and is parsed; the progress message
\* is sent
MsgArrive(w, u, text) ==
    /\ th[w].pc = "idle"
    /\ LET t == [IdleThread EXCEPT !.kind = "msg", !.user = u, !.text = text]
           p == ParseMessage(text)
           q == [t EXCEPT !.query = p.query, !.file_type = p.file_type]
       IN  IF IsCommand(text)
           THEN th' = [th EXCEPT ![w] = Finish(t, {}, FALSE)]
           ELSE \E failAt \in 0..1 :
                  IF p.query = <<>>
                  THEN th' = [th EXCEPT ![w] =
                         Finish(q, {"askterm"} \cup MsgExcept(failAt), FALSE)]
                  ELSE IF failAt = 0
                  THEN th' = [th EXCEPT ![w] =
                         [q EXCEPT !.pc = "search", !.calls = {"searching"}]]
                  ELSE th' = [th EXCEPT ![w] =
                         Finish(q, {"searching", "searcherr"}, FALSE)]
    /\ UNCHANGED <<user_sessions, disk, harness>>

\* line 151: the blocking call to the search API
MsgSearch(w) ==
    /\ th[w].pc = "search"
    /\ \E api \in BotApiOutcomes :
         LET r == search_files(api, th[w].file_type) IN
         IF r.raised
         THEN th' = [th EXCEPT ![w] =
                Finish(th[w], th[w].calls \cup {"searcherr"}, FALSE)]
         ELSE th' = [th EXCEPT ![w].pc = "store", ![w].results = r.ret,
                               ![w].api = api]
    /\ UNCHANGED <<user_sessions, disk, harness>>

\* lines 153-186: the empty-result reply, or the store into user_sessions
\* followed by the result message with its buttons
MsgStore(w) ==
    /\ th[w].pc = "store"
    /\ \E failAt \in 0..1 :
         IF NoResults(th[w].results)
         THEN /\ th' = [th EXCEPT ![w] = Finish(th[w],
                    th[w].calls \cup {"noresults"} \cup MsgExcept(failAt), FALSE)]
              /\ UNCHANGED <<user_sessions, shown, stored>>
         ELSE /\ user_sessions' = StoreSession(user_sessions, th[w].user,
                    SessionRecord(th[w].results, th[w].query, th[w].file_type))
              /\ th' = [th EXCEPT ![w] = Finish(th[w],
                    th[w].calls \cup {"found"} \cup MsgExcept(failAt), FALSE)]
              /\ shown' = IF failAt = 0
                          THEN RecordShown(shown, th[w].user, th[w].results)
                          ELSE shown
              /\ stored' = RecordStored(stored, th[w].user, th[w].results)
    /\ UNCHANGED <<disk, others>>

(***************************************************************************)
(* handle_callback, lines 201-213, and _handle_file_selection, 215-333     *)
(***************************************************************************)
\* lines 201-250: dispatch on the payload, parse the index, look the session
\* up (indexing the dict with a missing key raises KeyError), read its
\* result list (line 232, the one read of shared state whose value is used),
\* check the bounds, pick the entry, acknowledge the callback
\* and show the "preparing" edit
CbArrive(w, u, data) ==
    /\ th[w].pc = "idle"
    /\ LET t == [IdleThread EXCEPT !.kind = "cb", !.user = u, !.data = data] IN
       IF ~IsFileSelection(data)
       THEN \E failAt \in 0..1 :
              th' = [th EXCEPT ![w] = Finish(t, {"unknown"}, failAt # 0)]
       ELSE IF data.tag # "file_int"
       THEN th' = [th EXCEPT ![w] = Finish(t, {"selerr"}, FALSE)]
       ELSE IF ~HasSession(user_sessions, u)
       THEN \E failAt \in 0..2 :
              th' = [th EXCEPT ![w] = Finish(t,
                        Issued(<<"expired_answer", "expired_edit">>, failAt)
                        \cup SelExcept(failAt), FALSE)]
       ELSE IF u \notin DOMAIN user_sessions
       THEN th' = [th EXCEPT ![w] = Finish(t, {"selerr"}, FALSE)]
       ELSE LET search_results == ReadResults(user_sessions, u)
                n == Len(search_results)
                i == data.i
            IN  IF OutOfRange(i, n)
                THEN \E failAt \in 0..1 :
                       th' = [th EXCEPT ![w] = Finish(t,
                                 {"invalid"} \cup SelExcept(failAt), FALSE)]
                ELSE IF ~ListIndexValid(i, n)
                THEN th' = [th EXCEPT ![w] = Finish(t, {"selerr"}, FALSE)]
                ELSE \E failAt \in 0..2 :
                       LET c == Issued(<<"ack", "preparing">>, failAt) IN
                       IF failAt = 0
                       THEN th' = [th EXCEPT ![w] =
                              [t EXCEPT !.pc = "fs_download", !.file_index = i,
                                        !.results = search_results,
                                        !.selected = ListGet(search_results, i),
                                        !.calls = c]]
                       ELSE th' = [th EXCEPT ![w] =
                              Finish(t, c \cup {"selerr"}, FALSE)]
    /\ UNCHANGED <<user_sessions, disk, harness>>

\* lines 252-272: the download, then the "failed" edit or the "sending" edit
FsDownload(w) ==
    /\ th[w].pc = "fs_download"
    /\ \E http \in HttpOutcomes, failAt \in 0..1 :
         LET url == th[w].selected.url
             r == download_file(url, http, FreshName(disk), disk)
         IN
         /\ FreshName(disk) # NoPath \/ r.disk = disk
         /\ disk' = r.disk
         /\ IF ~r.success
            THEN th' = [th EXCEPT ![w] =
                   Finish(th[w],
                          th[w].calls \cup {"dlfailed"} \cup SelExcept(failAt),
                          FALSE)]
            ELSE IF failAt = 0
            THEN th' = [th EXCEPT ![w].pc = "fs_send",
                                  ![w].url = url,
                                  ![w].file_path = r.file_path,
                                  ![w].calls = th[w].calls \cup {"sending"}]
            ELSE th' = [th EXCEPT ![w] =
                   Finish([th[w] EXCEPT !.file_path = r.file_path],
                          th[w].calls \cup {"sending", "selerr"}, FALSE)]
    /\ UNCHANGED <<user_sessions, harness>>

\* lines 274-319: send_document and the "sent" edit inside try, the "error
\* sending" edit of the except clause, cleanup_file in finally
FsSend(w) ==
    /\ th[w].pc = "fs_send"
    /\ \E tryFail \in 0..2, exceptFail \in 0..1 :
         LET exists == th[w].file_path # NoPath /\ th[w].file_path \in disk
             tried == IF exists THEN Issued(<<"document", "sent">>, tryFail)
                      ELSE {}
             failed == ~exists \/ tryFail # 0
         IN  /\ (~failed) => exceptFail = 0
             /\ th' = [th EXCEPT ![w] = Finish(
                    [th[w] EXCEPT !.sent = exists /\ tryFail # 1],
                    th[w].calls \cup tried
                      \cup (IF failed THEN {"senderr"} ELSE {})
                      \cup SelExcept(exceptFail),
                    FALSE)]
             /\ disk' = IF th[w].file_path # NoPath
                        THEN cleanup_file(th[w].file_path, disk)
                        ELSE disk
    /\ UNCHANGED <<user_sessions, harness>>

\* the handler has returned and the worker thread takes the next update
Return(w) ==
    /\ th[w].pc = "done"
    /\ th' = [th EXCEPT ![w] = IdleThread]
    /\ UNCHANGED <<user_sessions, disk, harness>>

SearchIdle ==
    /\ searchIn = [api |-> JsonOk(<<>>), file_type |-> None]
    /\ searchOut = [called |-> FALSE, raised |-> FALSE, ret |-> <<>>]

DownloadIdle ==
    /\ dlIn = [url |-> "", http |-> CHOOSE h \in HttpOutcomes : h.kind = "connerr",
               name |-> NoPath, before |-> {}]
    /\ dlOut = [called |-> FALSE, success |-> FALSE, file_path |-> NoPath,
                error |-> None]

MagnetIdle ==
    /\ mgIn = [hash |-> <<>>, title |-> <<>>]
    /\ mgOut = [called |-> FALSE, raised |-> FALSE, ret |-> <<>>]

RunIdle == run = [pc |-> "off", depth |-> 0, signalled |-> FALSE]

HarnessIdle ==
    /\ SearchIdle
    /\ DownloadIdle
    /\ MagnetIdle
    /\ RunIdle
    /\ shown = NotRecorded
    /\ stored = NotRecorded

BotIdle ==
    /\ user_sessions = <<>>
    /\ th = [w \in Workers |-> IdleThread]

Init ==
    /\ BotIdle
    /\ disk = {}
    /\ HarnessIdle

Next ==
    \/ \E w \in Workers, u \in Users, text \in BotTexts : MsgArrive(w, u, text)
    \/ \E w \in Workers : MsgSearch(w)
    \/ \E w \in Workers : MsgStore(w)
    \/ \E w \in Workers, u \in Users, data \in Payloads : CbArrive(w, u, data)
    \/ \E w \in Workers : FsDownload(w)
    \/ \E w \in Workers : FsSend(w)
    \/ \E w \in Workers : Return(w)

Spec == Init /\ [][Next]_vars

(***************************************************************************)
(* SpecSearch: search_files on every API outcome and filter within the     *)
(* bounds.                                                                 *)
(***************************************************************************)
Qualities == {"720p", "1080P"}

Filters == {None, "", "720P", "1080p"}

Torrents == [quality : Qualities, seeds : 0..MaxSeeds, url : {"a.torrent"}]

TorrentLists == UNION {[1..n -> Torrents] : n \in 0..MaxTorrents}

MovieLists ==
    UNION {{[k \in 1..n |-> [id |-> k, torrents |-> tls[k]]] :
              tls \in [1..n -> TorrentLists]} : n \in 0..MaxMovies}

\* responses of one movie with more torrents than the result limit: all of
\* quality 720p without seeds, except at up to two places
LongLen == RESULT_LIMIT + MaxExtra

Unseeded == [quality |-> "720p", seeds |-> 0, url |-> "a.torrent"]

Exceptional ==
    {[quality |-> "720p", seeds |-> MaxSeeds, url |-> "a.torrent"],
     [quality |-> "1080P", seeds |-> MaxSeeds, url |-> "a.torrent"],
     [quality |-> "1080P", seeds |-> 0, url |-> "a.torrent"]}

LongTorrentLists ==
    {[k \in 1..LongLen |-> IF k = i THEN a ELSE IF k = j THEN b ELSE Unseeded] :
        <<i, j, a, b>> \in (1..LongLen) \X (1..LongLen) \X Exceptional
                              \X (Exceptional \cup {Unseeded})}

LongMovieLists == {<<[id |-> 1, torrents |-> ts]>> : ts \in LongTorrentLists}

ApiOutcomes ==
    [kind : {"neterr", "httperr", "badjson"}, status : {""},
     movie_count : {0}, movies : {<<>>}]
    \cup UNION {[kind : {"json"}, status : {"ok", "error"},
                 movie_count : {0, Len(ms)}, movies : {ms}] :
                    ms \in MovieLists \cup LongMovieLists}

InitSearch ==
    /\ BotIdle
    /\ disk = {}
    /\ searchIn \in [api : ApiOutcomes, file_type : Filters]
    /\ searchOut = [called |-> FALSE, raised |-> FALSE, ret |-> <<>>]
    /\ DownloadIdle
    /\ MagnetIdle
    /\ RunIdle
    /\ shown = NotRecorded
    /\ stored = NotRecorded

SearchCall ==
    /\ ~searchOut.called
    /\ LET r == search_files(searchIn.api, searchIn.file_type) IN
       searchOut' = [called |-> TRUE, raised |-> r.raised, ret |-> r.ret]
    /\ UNCHANGED <<user_sessions, disk, th, searchIn, dlIn, dlOut,
                   shown, stored, run, mgIn, mgOut>>

NextSearch == SearchCall

SpecSearch == InitSearch /\ [][NextSearch]_vars

(***************************************************************************)
(* SpecDownload: download_file on every URL, HTTP outcome and directory    *)
(* content within the bounds, followed by the caller's cleanup_file.       *)
(***************************************************************************)
Urls == {"", "a.torrent", "b"}

InitDownload ==
    /\ BotIdle
    /\ SearchIdle
    /\ MagnetIdle
    /\ RunIdle
    /\ shown = NotRecorded
    /\ stored = NotRecorded
    /\ disk \in SUBSET FileNames
    /\ disk # FileNames
    /\ dlIn \in [url : Urls, http : HttpOutcomes, name : {FreshName(disk)},
                 before : {disk}]
    /\ dlOut = [called |-> FALSE, success |-> FALSE, file_path |-> NoPath,
                error |-> None]

DlCall ==
    /\ ~dlOut.called
    /\ LET r == download_file(dlIn.url, dlIn.http, dlIn.name, disk) IN
       /\ dlOut' = [called |-> TRUE, success |-> r.success,
                    file_path |-> r.file_path, error |-> r.error]
       /\ disk' = r.disk
    /\ UNCHANGED <<user_sessions, th, searchIn, searchOut, dlIn,
                   shown, stored, run, mgIn, mgOut>>

DlCleanup ==
    /\ dlOut.called
    /\ dlOut.file_path # NoPath
    /\ dlOut.file_path \in disk
    /\ disk' = cleanup_file(dlOut.file_path, disk)
    /\ UNCHANGED <<user_sessions, th, searchIn, searchOut, dlIn, dlOut,
                   shown, stored, run, mgIn, mgOut>>

NextDownload == DlCall \/ DlCleanup

SpecDownload == InitDownload /\ [][NextDownload]_vars

(***************************************************************************)
(* SpecRun: TelegramBot.run, lines 335-365, called from line 411.          *)
(*                                                                         *)
(* run is the record                                                       *)
(*   pc         "off"      run has not been called                         *)
(*              "webhook"  a call of run is at lines 337-354               *)
(*              "polling"  it is inside infinity_polling, line 359         *)
(*              "sleeping" it is in the except clause, lines 360-364       *)
(*              "exited"   the process has ended                           *)
(*   depth      the number of calls of run on the stack                    *)
(*   signalled  a shutdown signal has been handled (sys.exit, line 350)    *)
(***************************************************************************)
InitRun ==
    /\ BotIdle
    /\ disk = {}
    /\ SearchIdle
    /\ DownloadIdle
    /\ MagnetIdle
    /\ shown = NotRecorded
    /\ stored = NotRecorded
    /\ run = [pc |-> "webhook", depth |-> 1, signalled |-> FALSE]

\* lines 337-357: remove_webhook, whose exception is caught and logged, and
\* the installation of the signal handlers
RunSetup ==
    /\ run.pc = "webhook"
    /\ \E webhookRaised \in BOOLEAN : run' = [run EXCEPT !.pc = "polling"]
    /\ UNCHANGED <<user_sessions, disk, th, searchIn, searchOut, dlIn, dlOut,
                   shown, stored, mgIn, mgOut>>

\* lines 359-363: infinity_polling raises an Exception, which is logged
PollingFails ==
    /\ run.pc = "polling"
    /\ run' = [run EXCEPT !.pc = "sleeping"]
    /\ UNCHANGED <<user_sessions, disk, th, searchIn, searchOut, dlIn, dlOut,
                   shown, stored, mgIn, mgOut>>

\* lines 363-365: after the sleep, run calls itself from its except clause.
\* Every restart adds a frame that never returns; past the recursion limit
\* the call raises RecursionError, which no frame of run catches (each is in
\* its except clause) and which ends the process at lines 412-414
RunRestart ==
    /\ run.pc = "sleeping"
    /\ IF run.depth < RecursionLimit
       THEN run' = [run EXCEPT !.pc = "webhook", !.depth = @ + 1]
       ELSE run' = [run EXCEPT !.pc = "exited"]
    /\ UNCHANGED <<user_sessions, disk, th, searchIn, searchOut, dlIn, dlOut,
                   shown, stored, mgIn, mgOut>>

\* lines 348-354: SIGINT or SIGTERM arrives, the handler calls sys.exit(0);
\* SystemExit is not an Exception and passes every except clause
Shutdown ==
    /\ run.pc \in {"webhook", "polling", "sleeping"}
    /\ run' = [run EXCEPT !.pc = "exited", !.signalled = TRUE]
    /\ UNCHANGED <<user_sessions, disk, th, searchIn, searchOut, dlIn, dlOut,
                   shown, stored, mgIn, mgOut>>

NextRun == RunSetup \/ PollingFails \/ RunRestart \/ Shutdown

SpecRun == InitRun /\ [][NextRun]_vars

(***************************************************************************)
(* SpecMagnet: WebScraper.get_magnet_link, scraper.py lines 224-260.       *)
(*                                                                         *)
(* A string is a sequence of pieces.  The hash is a sequence of            *)
(* characters, the title a sequence of code points, the base64 text a      *)
(* sequence of characters, and each literal fragment of the f-string of    *)
(* line 258 and each tracker URL is one piece.                             *)
(***************************************************************************)
\* code points 0xD800-0xDFFF: str.encode('utf-8') raises UnicodeEncodeError
IsSurrogate(cp) == 55296 <= cp /\ cp <= 57343

\* the UTF-8 bytes of one code point below 0x10000
Utf8Char(cp) ==
    IF cp < 128 THEN <<cp>>
    ELSE IF cp < 2048 THEN <<192 + (cp \div 64), 128 + (cp % 64)>>
    ELSE <<224 + (cp \div 4096), 128 + ((cp \div 64) % 64), 128 + (cp % 64)>>

RECURSIVE Utf8(_)
\* line 240: title.encode('utf-8'), for a title it can encode
Utf8(title) ==
    IF title = <<>> THEN <<>> ELSE Utf8Char(Head(title)) \o Utf8(Tail(title))

B64Alphabet ==
    <<"A", "B", "C", "D", "E", "F", "G", "H", "I", "J", "K", "L", "M", "N", "O", "P",
      "Q", "R", "S", "T", "U", "V", "W", "X", "Y", "Z", "a", "b", "c", "d", "e", "f",
      "g", "h", "i", "j", "k", "l", "m", "n", "o", "p", "q", "r", "s", "t", "u", "v",
      "w", "x", "y", "z", "0", "1", "2", "3", "4", "5", "6", "7", "8", "9", "+", "/">>

B64Digit(n) == B64Alphabet[n + 1]

RECURSIVE b64encode(_)
\* line 240: base64.b64encode, three bytes to four digits, '=' padding
b64encode(bytes) ==
    IF bytes = <<>> THEN <<>>
    ELSE IF Len(bytes) = 1
    THEN <<B64Digit(bytes[1] \div 4), B64Digit((bytes[1] % 4) * 16), "=", "=">>
    ELSE IF Len(bytes) = 2
    THEN <<B64Digit(bytes[1] \div 4),
           B64Digit((bytes[1] % 4) * 16 + (bytes[2] \div 16)),
           B64Digit((bytes[2] % 16) * 4), "=">>
    ELSE <<B64Digit(bytes[1] \div 4),
           B64Digit((bytes[1] % 4) * 16 + (bytes[2] \div 16)),
           B64Digit((bytes[2] % 16) * 4 + (bytes[3] \div 64)),
           B64Digit(bytes[3] % 64)>>
         \o b64encode(SubSeq(bytes, 4, Len(bytes)))

\* lines 243-252
trackers ==
    <<"udp://open.demonii.com:1337/announce",
      "udp://tracker.openbittorrent.com:80",
      "udp://tracker.coppersurfer.tk:6969",
      "udp://glotorrents.pw:6969/announce",
      "udp://tracker.opentrackr.org:1337/announce",
      "udp://torrent.gresille.org:80/announce",
      "udp://p4p.arenabg.com:1337",
      "udp://tracker.leechers-paradise.org:6969">>

RECURSIVE Join(_, _)
\* line 255: "&".join(...)
Join(sep, parts) ==
    IF parts = <<>> THEN <<>>
    ELSE IF Len(parts) = 1 THEN parts[1]
    ELSE parts[1] \o <<sep>> \o Join(sep, Tail(parts))

\* line 255
tracker_params == Join("&", [k \in DOMAIN trackers |-> <<"tr=", trackers[k]>>])

\* lines 224-260: raised tells that the call raised instead of returning
get_magnet_link(torrent_hash, title) ==
    IF torrent_hash = <<>> THEN [raised |-> FALSE, ret |-> <<>>]
    ELSE IF \E k \in DOMAIN title : IsSurrogate(title[k])
    THEN [raised |-> TRUE, ret |-> <<>>]
    ELSE [raised |-> FALSE,
          ret |-> <<"magnet:?xt=urn:btih:">> \o torrent_hash \o <<"&dn=">>
                  \o b64encode(Utf8(title)) \o <<"&">> \o tracker_params]

HashChars == {"a", "1"}

\* 'M', e with acute accent (two bytes), the euro sign (three bytes) and an
\* unpaired surrogate, which a JSON body can carry as \ud800
TitleChars == {77, 233, 8364, 55296}

Hashes == UNION {[1..n -> HashChars] : n \in 0..MaxHashLen}

Titles == UNION {[1..n -> TitleChars] : n \in 0..MaxTitleLen}

InitMagnet ==
    /\ BotIdle
    /\ disk = {}
    /\ SearchIdle
    /\ DownloadIdle
    /\ RunIdle
    /\ shown = NotRecorded
    /\ stored = NotRecorded
    /\ mgIn \in [hash : Hashes, title : Titles]
    /\ mgOut = [called |-> FALSE, raised |-> FALSE, ret |-> <<>>]

MagnetCall ==
    /\ ~mgOut.called
    /\ LET r == get_magnet_link(mgIn.hash, mgIn.title) IN
       mgOut' = [called |-> TRUE, raised |-> r.raised, ret |-> r.ret]
    /\ UNCHANGED <<user_sessions, disk, th, searchIn, searchOut, dlIn, dlOut,
                   shown, stored, run, mgIn>>

NextMagnet == MagnetCall

SpecMagnet == InitMagnet /\ [][NextMagnet]_vars

(***************************************************************************)
(* SpecMessage: process_message on one free-text message, handled by one   *)
(* worker for one user who has a session or has none.  The texts are the   *)
(* concatenations of up to MaxPieces fragments: quality tokens in lower,   *)
(* and upper case, the halves of a token, blanks and other characters.     *)
(***************************************************************************)
Fragments ==
    {<<"7", "2", "0", "p">>, <<"7", "2", "0", "P">>,
     <<"1", "0", "8", "0", "p">>, <<"2", "1", "6", "0", "P">>,
     <<"7", "2">>, <<"0", "p">>, <<" ">>, <<"M">>}

RECURSIVE Concat(_)
Concat(parts) ==
    IF parts = <<>> THEN <<>> ELSE Head(parts) \o Concat(Tail(parts))

\* Telegram delivers no empty and no blank text
MessageTexts ==
    {t \in {Concat(parts) :
              parts \in UNION {[1..n -> Fragments] : n \in 1..MaxPieces}} :
        \E k \in DOMAIN t : t[k] # " "}

InitMessage ==
    /\ th = [w \in Workers |-> IdleThread]
    /\ user_sessions \in
          {<<>>, ("u1" :> SessionRecord(search_files(OneMovie, None).ret,
                                        <<"M">>, None))}
    /\ disk = {}
    /\ HarnessIdle

NextMessage ==
    \/ \E text \in MessageTexts : MsgArrive("w1", "u1", text)
    \/ MsgSearch("w1")
    \/ MsgStore("w1")

SpecMessage == InitMessage /\ [][NextMessage]_vars

(***************************************************************************)
(* SpecSeq: the bot handling one update at a time on one worker, with the  *)
(* result messages shown to each user recorded in shown.  The callbacks    *)
(* are presses of buttons that a message in the chat carries.              *)
(***************************************************************************)
InitSeq ==
    /\ BotIdle
    /\ disk = {}
    /\ SearchIdle
    /\ DownloadIdle
    /\ MagnetIdle
    /\ RunIdle
    /\ shown = [u \in Users |-> {}]
    /\ stored = NotRecorded

\* a message shown to u carries the button file_<i>
ButtonShown(u, data) ==
    /\ data.tag = "file_int"
    /\ \E list \in shown[u] : 0 <= data.i /\ data.i < Len(list)

NextSeq ==
    \/ \E u \in Users, text \in BotTexts : MsgArrive("w1", u, text)
    \/ MsgSearch("w1")
    \/ MsgStore("w1")
    \/ \E u \in Users, data \in Payloads :
          ButtonShown(u, data) /\ CbArrive("w1", u, data)
    \/ FsDownload("w1")
    \/ FsSend("w1")
    \/ Return("w1")

SpecSeq == InitSeq /\ [][NextSeq]_vars

(***************************************************************************)
(* SpecOwn: the bot of Spec with the result lists stored for each user     *)
(* recorded in stored.  The two users search for different things, u1 for  *)
(* "M" and u2 for "720P M", so that the lists of one user differ from the  *)
(* lists of the other; both press every button and send every payload.     *)
(***************************************************************************)
OwnTexts(u) ==
    IF u = "u1" THEN {<<"M">>} ELSE {<<"7", "2", "0", "P", " ", "M">>}

InitOwn ==
    /\ BotIdle
    /\ disk = {}
    /\ SearchIdle
    /\ DownloadIdle
    /\ MagnetIdle
    /\ RunIdle
    /\ shown = NotRecorded
    /\ stored = [u \in Users |-> {}]

NextOwn ==
    \/ \E w \in Workers, u \in Users : \E text \in OwnTexts(u) :
          MsgArrive(w, u, text)
    \/ \E w \in Workers : MsgSearch(w)
    \/ \E w \in Workers : MsgStore(w)
    \/ \E w \in Workers, u \in Users, data \in Payloads : CbArrive(w, u, data)
    \/ \E w \in Workers : FsDownload(w)
    \/ \E w \in Workers : FsSend(w)
    \/ \E w \in Workers : Return(w)

SpecOwn == InitOwn /\ [][NextOwn]_vars

(***************************************************************************)
(* SpecRace: a callback handled on w1 and the messages of the same user    *)
(* handled on w2.  The file selection is split at each access to the       *)
(* session mapping: the membership test of line 222, the read of line 232, *)
(* and the check and access of lines 233-237, which use the local          *)
(* variable search_results.  A store of w2 can fall between any two.       *)
(***************************************************************************)
\* an access that goes back to the session mapping
AccessListShared(search_results, sessions, u) == sessions[u].search_results

\* line 237: search_results[file_index] indexes the local variable
AccessList(search_results, sessions, u) == search_results

\* lines 201-229: dispatch, int() of the payload, the membership test
FsLookup(w, u, data) ==
    /\ th[w].pc = "idle"
    /\ LET t == [IdleThread EXCEPT !.kind = "cb", !.user = u, !.data = data] IN
       IF ~IsFileSelection(data)
       THEN \E failAt \in 0..1 :
              th' = [th EXCEPT ![w] = Finish(t, {"unknown"}, failAt # 0)]
       ELSE IF data.tag # "file_int"
       THEN th' = [th EXCEPT ![w] = Finish(t, {"selerr"}, FALSE)]
       ELSE IF ~HasSession(user_sessions, u)
       THEN \E failAt \in 0..2 :
              th' = [th EXCEPT ![w] = Finish(t,
                        Issued(<<"expired_answer", "expired_edit">>, failAt)
                        \cup SelExcept(failAt), FALSE)]
       ELSE th' = [th EXCEPT ![w] =
                     [t EXCEPT !.pc = "fs_read", !.file_index = data.i]]
    /\ UNCHANGED <<user_sessions, disk, harness>>

\* line 232: the read of the user's result list into the local variable; a
\* missing key raises KeyError, caught at line 321
FsRead(w) ==
    /\ th[w].pc = "fs_read"
    /\ IF th[w].user \notin DOMAIN user_sessions
       THEN th' = [th EXCEPT ![w] = Finish(th[w], {"selerr"}, FALSE)]
       ELSE th' = [th EXCEPT ![w].pc = "fs_pick",
                             ![w].results = ReadResults(user_sessions, th[w].user)]
    /\ UNCHANGED <<user_sessions, disk, harness>>

\* lines 233-250: the bounds check, the element access (IndexError is caught
\* at line 321), the acknowledgment and the "preparing" edit
FsPick(w) ==
    /\ th[w].pc = "fs_pick"
    /\ LET search_results == th[w].results
           i == th[w].file_index
           accessed == AccessList(search_results, user_sessions, th[w].user)
       IN  IF OutOfRange(i, Len(search_results))
           THEN \E failAt \in 0..1 :
                  th' = [th EXCEPT ![w] = Finish(th[w],
                            {"invalid"} \cup SelExcept(failAt), FALSE)]
           ELSE IF ~ListIndexValid(i, Len(accessed))
           THEN th' = [th EXCEPT ![w] = Finish(th[w], {"selerr"}, FALSE)]
           ELSE \E failAt \in 0..2 :
                  LET c == Issued(<<"ack", "preparing">>, failAt) IN
                  IF failAt = 0
                  THEN th' = [th EXCEPT ![w].pc = "fs_download",
                                        ![w].selected = ListGet(accessed, i),
                                        ![w].calls = c]
                  ELSE th' = [th EXCEPT ![w] =
                         Finish(th[w], c \cup {"selerr"}, FALSE)]
    /\ UNCHANGED <<user_sessions, disk, harness>>

InitRace ==
    /\ BotIdle
    /\ disk = {}
    /\ HarnessIdle

NextRace ==
    \/ \E data \in Payloads : FsLookup("w1", "u1", data)
    \/ FsRead("w1")
    \/ FsPick("w1")
    \/ FsDownload("w1")
    \/ FsSend("w1")
    \/ \E text \in BotTexts : MsgArrive("w2", "u1", text)
    \/ MsgSearch("w2")
    \/ MsgStore("w2")
    \/ \E w \in Workers : Return(w)

SpecRace == InitRace /\ [][NextRace]_vars

(***************************************************************************)
(* Properties                                                              *)
(***************************************************************************)
\* w takes a file_<i> callback of user u in this step
TakesFileCallback(w) ==
    /\ th[w].pc = "idle"
    /\ th'[w].kind = "cb"
    /\ th'[w].data.tag = "file_int"

\* the run of w has started no download and sent no document
NothingTransferred(t) == t.file_path = NoPath /\ ~t.sent

\* C1: whenever the file-selection handler goes on to download a result, the
\* index i of the payload file_<i> satisfies 0 <= i < n, n the length of the
\* result list the handler read from the user's session.
C1_IndexWithinBounds ==
    \A w \in Workers :
        th[w].pc \in {"fs_download", "fs_send"} =>
            /\ 0 <= th[w].file_index
            /\ th[w].file_index < Len(th[w].results)

\* C2: a callback file_<i> of a user whose session holds n results, i >= n,
\* is answered with "Invalid selection" and the handler returns: nothing is
\* downloaded, no document is sent, the sessions and the download directory
\* are unchanged and no exception leaves the handler.
C2_InvalidSelection ==
    [][\A w \in Workers :
         (/\ TakesFileCallback(w)
          /\ th'[w].user \in DOMAIN user_sessions
          /\ th'[w].data.i >= Len(user_sessions[th'[w].user].search_results))
         => /\ th'[w].pc = "done"
            /\ "invalid" \in th'[w].calls
            /\ th'[w].calls \subseteq {"invalid", "selerr"}
            /\ NothingTransferred(th'[w])
            /\ ~th'[w].escaped
            /\ user_sessions' = user_sessions
            /\ disk' = disk]_vars

\* C2 witness: a run that answered "Invalid selection" and nothing else has
\* finished for a user who has a session
C2_Witness ==
    \E w \in Workers :
        /\ th[w].pc = "done"
        /\ th[w].calls = {"invalid"}
        /\ th[w].user \in DOMAIN user_sessions
        /\ th[w].data.i >= Len(user_sessions[th[w].user].search_results)

\* C3: a callback file_<i> of a user id without a session entry is answered
\* with "Search session expired" (the answer, then the edit) and the handler
\* returns: nothing is downloaded, no document is sent and no session entry
\* is created.
C3_SessionExpired ==
    [][\A w \in Workers :
         (/\ TakesFileCallback(w)
          /\ th'[w].user \notin DOMAIN user_sessions)
         => /\ th'[w].pc = "done"
            /\ "expired_answer" \in th'[w].calls
            /\ th'[w].calls \subseteq {"expired_answer", "expired_edit", "selerr"}
            /\ "selerr" \notin th'[w].calls => "expired_edit" \in th'[w].calls
            /\ NothingTransferred(th'[w])
            /\ ~th'[w].escaped
            /\ user_sessions' = user_sessions
            /\ disk' = disk]_vars

\* C3 witness: a run has replied "expired" to a user without a session while
\* another user has one
C3_Witness ==
    \E w \in Workers :
        /\ th[w].pc = "done"
        /\ th[w].calls = {"expired_answer", "expired_edit"}
        /\ th[w].user \notin DOMAIN user_sessions
        /\ DOMAIN user_sessions # {}

\* C4: when a run of the file-selection handler finishes, on every path, the
\* file it downloaded no longer exists in the download directory.
C4_FileDeletedAfterRun ==
    [][\A w \in Workers :
         (/\ th[w].kind = "cb"
          /\ th[w].pc # "done"
          /\ th'[w].pc = "done"
          /\ th'[w].file_path # NoPath)
         => th'[w].file_path \notin disk']_vars

\* C5: download_file on a response that declares a Content-Length above
\* 50 MB fails with "File too large", returns no path and leaves the
\* download directory as it was.
C5_TooLargeWritesNothing ==
    (/\ dlOut.called
     /\ dlIn.url # ""
     /\ dlIn.http.kind = "ok"
     /\ dlIn.http.content_length > 50 * 1024 * 1024)
    => /\ ~dlOut.success
       /\ dlOut.error = "File too large"
       /\ dlOut.file_path = NoPath
       /\ disk = dlIn.before

\* C5 witness: the call was made on a response one byte above the ceiling
C5_Witness ==
    /\ dlOut.called
    /\ dlIn.url = "a.torrent"
    /\ dlIn.http.kind = "ok"
    /\ dlIn.http.content_length = 50 * 1024 * 1024 + 1
    /\ dlOut.error = "File too large"

\* w performs lines 153-186 in this step
StoreStep(w) == th[w].pc = "store" /\ th'[w].pc = "done"

SearchRecord(t) == SessionRecord(t.results, t.query, t.file_type)

\* C6 as stated: after every free-text search handled for user u, whatever
\* it returned, u's session holds that search's query, filter and results.
C6_SessionHoldsEverySearch ==
    [][\A w \in Workers :
         StoreStep(w) =>
            /\ th[w].user \in DOMAIN user_sessions'
            /\ user_sessions'[th[w].user] = SearchRecord(th[w])]_vars

\* C6 amended: a search that returned at least one result replaces u's whole
\* session record by its own query, filter and results; a search that
\* returned nothing leaves the sessions as they were; nothing else changes a
\* session.
C6_SessionHoldsNonEmptySearch ==
    [][/\ \A w \in Workers :
            StoreStep(w) =>
               IF th[w].results # <<>>
               THEN /\ th[w].user \in DOMAIN user_sessions'
                    /\ user_sessions'[th[w].user] = SearchRecord(th[w])
               ELSE user_sessions' = user_sessions
       /\ user_sessions' # user_sessions =>
            \E w \in Workers : StoreStep(w) /\ th[w].results # <<>>]_vars

\* C6 witness: a search of user u has stored its one-entry result list, and
\* a second search of u, holding a different non-empty list, is about to
\* store
C6_Witness ==
    \E u \in DOMAIN user_sessions : \E w1, w2 \in Workers :
        /\ th[w1].pc = "done" /\ th[w1].kind = "msg" /\ th[w1].user = u
        /\ "found" \in th[w1].calls
        /\ user_sessions[u].file_type = "720p"
        /\ Len(user_sessions[u].search_results) = 1
        /\ th[w2].pc = "store" /\ th[w2].user = u
        /\ Len(th[w2].results) = 2

\* C7: no step removes an entry from the session mapping, and the "session
\* expired" reply only goes to a user who has no entry.
C7_SessionsOnlyGrow ==
    [][/\ DOMAIN user_sessions \subseteq DOMAIN user_sessions'
       /\ \A w \in Workers :
            (th[w].pc = "idle" /\ "expired_answer" \in th'[w].calls)
            => th'[w].user \notin DOMAIN user_sessions]_vars

\* C7 witness: both users have a session and a later callback of one of
\* them has run to the end of a send
C7_Witness ==
    /\ DOMAIN user_sessions = Users
    /\ \E w \in Workers : th[w].pc = "done" /\ th[w].sent

\* C8: no exception propagates out of process_message or handle_callback.
C8_NoExceptionEscapes == \A w \in Workers : ~th[w].escaped

\* the torrents of the response that a non-empty filter matches
MatchingPositions(api, file_type) ==
    {p \in UNION {{<<m, t>> : t \in DOMAIN api.movies[m].torrents} :
                    m \in DOMAIN api.movies} :
        Lower(api.movies[p[1]].torrents[p[2]].quality) = Lower(file_type)}

\* C9: search_files returns an empty list and raises nothing when the
\* request fails, the HTTP status is an error, the body is not JSON or the
\* API status is not 'ok'.
C9_SearchFailsSoft ==
    (/\ searchOut.called
     /\ \/ searchIn.api.kind \in {"neterr", "httperr", "badjson"}
        \/ searchIn.api.status # "ok")
    => searchOut.ret = <<>> /\ ~searchOut.raised

\* C9 witness: the call was made on a decoded body with status 'error' that
\* carries torrents
C9_Witness ==
    /\ searchOut.called
    /\ searchIn.api.kind = "json"
    /\ searchIn.api.status = "error"
    /\ searchIn.api.movie_count # 0
    /\ \E m \in DOMAIN searchIn.api.movies : searchIn.api.movies[m].torrents # <<>>

\* C10: with a non-empty filter every returned entry has the filter's quality
\* up to case, and every torrent of an accepted response with that quality is
\* returned (as long as there are no more than the result limit).
C10_QualityFilter ==
    (searchOut.called /\ ~Falsy(searchIn.file_type)) =>
        LET api == searchIn.api
            f == searchIn.file_type
            ret == searchOut.ret
        IN  /\ \A k \in DOMAIN ret : Lower(ret[k].quality) = Lower(f)
            /\ (/\ api.kind = "json"
                /\ api.status = "ok"
                /\ api.movie_count # 0
                /\ Cardinality(MatchingPositions(api, f)) <= RESULT_LIMIT)
               => /\ Len(ret) = Cardinality(MatchingPositions(api, f))
                  /\ \A p \in MatchingPositions(api, f) :
                        \E k \in DOMAIN ret :
                           ret[k] = ResultEntry(api.movies[p[1]],
                                        api.movies[p[1]].torrents[p[2]])

\* C10 witness: the filter 1080p kept a torrent of quality 1080P and dropped
\* one of another quality
C10_Witness ==
    /\ searchOut.called
    /\ searchIn.file_type = "1080p"
    /\ \E k \in DOMAIN searchOut.ret : searchOut.ret[k].quality = "1080P"
    /\ \E m \in DOMAIN searchIn.api.movies :
          \E t \in DOMAIN searchIn.api.movies[m].torrents :
             searchIn.api.movies[m].torrents[t].quality = "720p"

\* C19: whenever download_file returns failure, the download directory holds
\* no file that the call created, also when the failure happens after the
\* output file was opened.
C19_FailureLeavesNoFile ==
    (dlOut.called /\ ~dlOut.success) => disk = dlIn.before

\* the torrents of the response that the filter lets through
PassingPositions(api, file_type) ==
    IF file_type \in {None, ""}
    THEN UNION {{<<m, t>> : t \in DOMAIN api.movies[m].torrents} :
                   m \in DOMAIN api.movies}
    ELSE MatchingPositions(api, file_type)

EntryAt(api, p) == ResultEntry(api.movies[p[1]], api.movies[p[1]].torrents[p[2]])

\* C11: the returned list is in non-increasing order of seeds and has at most
\* 10 entries, every entry is a torrent of the response that passes the
\* filter, and for an accepted response the list holds the highest-seed ones:
\* as many entries as pass the filter up to 10, and above every seed count as
\* many entries as pass the filter above it, up to 10.
C11_TopSeedsFirst ==
    searchOut.called =>
        LET api == searchIn.api
            ret == searchOut.ret
            pass == PassingPositions(api, searchIn.file_type)
        IN  /\ Len(ret) <= RESULT_LIMIT
            /\ \A k \in 1..(Len(ret) - 1) : ret[k].seeds >= ret[k + 1].seeds
            /\ \A k \in DOMAIN ret :
                  Cardinality({j \in DOMAIN ret : ret[j] = ret[k]})
                     <= Cardinality({p \in pass : EntryAt(api, p) = ret[k]})
            /\ (api.kind = "json" /\ api.status = "ok" /\ api.movie_count # 0)
               => /\ Len(ret) = Min(RESULT_LIMIT, Cardinality(pass))
                  /\ \A s \in 0..MaxSeeds :
                        Cardinality({k \in DOMAIN ret : ret[k].seeds > s})
                           = Min(RESULT_LIMIT,
                                 Cardinality({p \in pass :
                                                EntryAt(api, p).seeds > s}))

\* C11 witness: more than 10 torrents passed the filter, and the one returned
\* first is a seeded torrent that came last in the response, after more than
\* 10 unseeded ones
C11_Witness ==
    /\ searchOut.called
    /\ Len(searchOut.ret) = RESULT_LIMIT
    /\ Cardinality(PassingPositions(searchIn.api, searchIn.file_type)) > RESULT_LIMIT
    /\ searchOut.ret[1].seeds = MaxSeeds
    /\ searchOut.ret[RESULT_LIMIT].seeds = 0
    /\ LET ts == searchIn.api.movies[1].torrents IN
       /\ Len(ts) > RESULT_LIMIT
       /\ ts[Len(ts)].seeds = MaxSeeds
       /\ \A k \in 1..(Len(ts) - 1) : ts[k].seeds = 0

\* the API answered with status 'ok' and reported no match
ZeroMatches(api) == api.kind = "json" /\ api.status = "ok" /\ api.movie_count = 0

\* C12: when the API reports zero matches search_files returns the empty
\* list, and the handler then ends with the 'No results found' message: the
\* message with the selection buttons is not issued, no session is stored and
\* nothing escapes.
C12_ZeroMatchesNoResults ==
    [][\A w \in Workers :
          /\ (th[w].pc = "search" /\ th'[w].pc # "search" /\ ZeroMatches(th'[w].api))
             => (th'[w].pc = "store" /\ th'[w].results = <<>>)
          /\ (th[w].pc = "store" /\ th'[w].pc # "store" /\ ZeroMatches(th[w].api))
             => /\ th'[w].pc = "done"
                /\ "noresults" \in th'[w].calls
                /\ "found" \notin th'[w].calls
                /\ ~th'[w].escaped
                /\ user_sessions' = user_sessions]_vars

\* C12 witness: a search that met zero matches has ended with the 'No results
\* found' message as its last call
C12_Witness ==
    \E w \in Workers :
       /\ th[w].pc = "done"
       /\ th[w].kind = "msg"
       /\ ZeroMatches(th[w].api)
       /\ th[w].calls = {"searching", "noresults"}

\* worker w takes a callback whose payload is not file_<integer>
TakesMalformedCallback(w) ==
    /\ th[w].pc = "idle"
    /\ th'[w].kind = "cb"
    /\ th'[w].data.tag # "file_int"

\* C13 as stated: every callback whose payload is not of the form
\* file_<integer>, those beginning with file_ included, is answered with
\* 'Unknown callback' and causes no download, no document and no session
\* change.
C13_UnknownForEveryMalformed ==
    [][\A w \in Workers :
         TakesMalformedCallback(w)
         => /\ th'[w].pc = "done"
            /\ "unknown" \in th'[w].calls
            /\ NothingTransferred(th'[w])
            /\ user_sessions' = user_sessions
            /\ disk' = disk]_vars

\* C13 amended: a payload that does not begin with file_ is answered with
\* 'Unknown callback' and nothing else; a payload that begins with file_ but
\* carries no integer is not answered, the message is edited to the generic
\* 'Error processing your selection' text instead; neither downloads, sends
\* a document or changes a session.
C13_MalformedCallback ==
    [][\A w \in Workers :
         TakesMalformedCallback(w)
         => /\ th'[w].pc = "done"
            /\ th'[w].data.tag = "other" => th'[w].calls = {"unknown"}
            /\ th'[w].data.tag = "file_bad" =>
                  (th'[w].calls = {"selerr"} /\ ~th'[w].escaped)
            /\ NothingTransferred(th'[w])
            /\ user_sessions' = user_sessions
            /\ disk' = disk]_vars

\* C13 witness: a payload beginning with file_ without an integer got the
\* generic error edit while another payload got 'Unknown callback'
C13_Witness ==
    \E w1, w2 \in Workers :
       /\ th[w1].pc = "done" /\ th[w1].kind = "cb"
       /\ th[w1].data.tag = "file_bad" /\ th[w1].calls = {"selerr"}
       /\ th[w2].pc = "done" /\ th[w2].kind = "cb"
       /\ th[w2].data.tag = "other" /\ th[w2].calls = {"unknown"}

\* the records a single search can store: its results, query and filter
OneSearchRecords ==
    {SessionRecord(search_files(api, ParseMessage(text).file_type).ret,
                   ParseMessage(text).query, ParseMessage(text).file_type) :
        text \in BotTexts, api \in BotApiOutcomes}

\* worker w has stored the results of a search for user u and finished
HasStored(t, u) ==
    t.pc = "done" /\ t.kind = "msg" /\ t.user = u /\ "found" \in t.calls

\* C15: in every reachable state each stored record's result list, query and
\* filter come from one and the same search; and when a search handler with
\* results stores while another handler of the same user has stored before
\* it or is about to store after it, the session becomes the record of the
\* one that stores, whole, so that the last store wins.
C15_LastStoreWins ==
    /\ [](\A u \in DOMAIN user_sessions : user_sessions[u] \in OneSearchRecords)
    /\ [][\A w1, w2 \in Workers :
            (/\ w1 # w2
             /\ StoreStep(w1)
             /\ th[w1].results # <<>>
             /\ th[w2].user = th[w1].user
             /\ \/ HasStored(th[w2], th[w1].user)
                \/ th[w2].pc = "store" /\ th[w2].results # <<>>)
            => /\ user_sessions'[th[w1].user] = SearchRecord(th[w1])
               /\ th'[w2] = th[w2]]_vars

\* C15 witness: two searches of one user, one with the 720p filter and one
\* without, have both stored and finished, and the session is the filtered
\* one's record
C15_Witness ==
    \E u \in DOMAIN user_sessions : \E w1, w2 \in Workers :
       /\ HasStored(th[w1], u) /\ th[w1].text = <<"7", "2", "0", "P", " ", "M">>
       /\ HasStored(th[w2], u) /\ th[w2].text = <<"M">>
       /\ user_sessions[u].file_type = "720p"
       /\ user_sessions[u].query = <<"m">>
       /\ Len(user_sessions[u].search_results) = 1

\* C16: whenever polling fails run starts polling again, so that polling
\* only ends by a shutdown signal: the process has not ended unless a
\* shutdown signal was handled.
C16_OnlyShutdownEndsPolling == run.pc = "exited" => run.signalled

\* s begins with the pieces of p
StartsWith(s, p) == Len(s) >= Len(p) /\ SubSeq(s, 1, Len(p)) = p

\* C17: get_magnet_link returns the empty string when the hash is empty,
\* and for a non-empty hash it returns a string that starts with
\* 'magnet:?xt=urn:btih:' followed by the hash, whatever the title is.
C17_MagnetPrefix ==
    mgOut.called =>
        /\ ~mgOut.raised
        /\ IF mgIn.hash = <<>> THEN mgOut.ret = <<>>
           ELSE StartsWith(mgOut.ret, <<"magnet:?xt=urn:btih:">> \o mgIn.hash)

\* the places where a quality option occurs in a lower-cased text
Occurrences(s, q) == {k \in DOMAIN s : OccursAt(s, QualityChars(q), k)}

\* the options that occur in the text, whatever the case of its letters
OptionsIn(text) ==
    {j \in DOMAIN quality_options :
        Occurrences(LowerText(text), quality_options[j]) # {}}

\* the filter the text asks for: the first option of the list that occurs
ExpectedFilter(text) ==
    IF OptionsIn(text) = {} THEN None
    ELSE quality_options[CHOOSE j \in OptionsIn(text) :
                            \A m \in OptionsIn(text) : j <= m]

RECURSIVE Uncovered(_, _, _)
\* the characters of s from place k on that no occurrence of cover holds
Uncovered(s, cover, k) ==
    IF k > Len(s) THEN <<>>
    ELSE (IF k \in cover THEN <<>> ELSE <<s[k]>>) \o Uncovered(s, cover, k + 1)

\* the query the text asks for: the text without its outer blanks when it
\* names no option, else the lower-cased text without the characters of every
\* occurrence of the filter and without outer blanks
ExpectedQuery(text) ==
    LET f == ExpectedFilter(text)
        s == LowerText(text)
        cover == {k \in DOMAIN s :
                    \E o \in Occurrences(s, f) :
                       o <= k /\ k < o + Len(QualityChars(f))}
    IN  IF f = None THEN Strip(text) ELSE Strip(Uncovered(s, cover, 1))

\* C18: for a free-text message the filter is the first of 720p, 1080p,
\* 2160p that occurs in the text in any case, and the query is the text
\* without that token; when the query is empty the handler asks for a search
\* term and returns, without calling the search API and without changing a
\* session; otherwise it goes on to search with that query and filter.
C18_FilterAndEmptyQuery ==
    [][\A w \in Workers :
         (/\ th[w].pc = "idle"
          /\ th'[w].kind = "msg"
          /\ ~IsCommand(th'[w].text))
         => /\ user_sessions' = user_sessions
            /\ IF ExpectedQuery(th'[w].text) = <<>>
               THEN /\ th'[w].pc = "done"
                    /\ "askterm" \in th'[w].calls
                    /\ th'[w].calls \subseteq {"askterm", "searcherr"}
               ELSE /\ "askterm" \notin th'[w].calls
                    /\ "searching" \in th'[w].calls
                    /\ th'[w].pc \in {"search", "done"}
                    /\ th'[w].pc = "search" =>
                          /\ th'[w].file_type = ExpectedFilter(th'[w].text)
                          /\ th'[w].query = ExpectedQuery(th'[w].text)]_vars

\* C18 witness: the text " 720P " of a user who has a session was answered
\* with the request for a search term and nothing else, and the session is
\* the one the user had
C18_Witness ==
    /\ th["w1"].pc = "done"
    /\ th["w1"].kind = "msg"
    /\ th["w1"].text = <<" ", "7", "2", "0", "P", " ">>
    /\ th["w1"].calls = {"askterm"}
    /\ "u1" \in DOMAIN user_sessions
    /\ user_sessions["u1"].query = <<"M">>

\* C14: a press of a button file_<i> that some result message of the user
\* carries is resolved against the list stored for the user at the time of
\* the press: with i below the length of that list the handler picks entry i
\* of it and downloads from that entry's url, otherwise it answers 'Invalid
\* selection'; the list of the message that carries the button plays no part.
C14_ResolvedAgainstStoredList ==
    /\ [][\A w \in Workers :
            (TakesFileCallback(w) /\ th'[w].user \in DOMAIN user_sessions)
            => LET current == user_sessions[th'[w].user].search_results
                   i == th'[w].data.i
               IN  IF i < Len(current)
                   THEN /\ "invalid" \notin th'[w].calls
                        /\ th'[w].pc \in {"fs_download", "done"}
                        /\ th'[w].pc = "fs_download" =>
                              th'[w].selected = current[i + 1]
                        /\ th'[w].pc = "done" =>
                              {"ack", "selerr"} \subseteq th'[w].calls
                   ELSE /\ th'[w].pc = "done"
                        /\ "invalid" \in th'[w].calls
                        /\ NothingTransferred(th'[w])]_vars
    /\ [](\A w \in Workers :
            th[w].pc \in {"fs_download", "fs_send"} =>
               th[w].selected =
                  user_sessions[th[w].user].search_results[th[w].file_index + 1])

\* C14 witness: the user was shown a list of two results and then stored a
\* list of one; the press of button 0 picked the entry of the stored list,
\* which is not the entry the shown list has there
C14_Witness ==
    \E u \in DOMAIN user_sessions :
       /\ th["w1"].pc = "fs_download"
       /\ th["w1"].user = u
       /\ th["w1"].data.i = 0
       /\ Len(user_sessions[u].search_results) = 1
       /\ th["w1"].selected = user_sessions[u].search_results[1]
       /\ \E list \in shown[u] : Len(list) = 2 /\ list[1] # th["w1"].selected

\* C20: a running file selection checks the bounds and takes the element on
\* the one list it read from the session, and keeps the entry it picked
\* until it finishes: whatever a search of the same user stores in between,
\* the read of the list finds the key, an index error happens only for an
\* index that is outside the list the handler read, and the entry, the list
\* and the index of a run that downloads and sends do not change.
C20_SelectionUsesItsOwnList ==
    /\ [](\A w \in Workers :
            th[w].pc \in {"fs_download", "fs_send"} =>
               /\ ListIndexValid(th[w].file_index, Len(th[w].results))
               /\ th[w].selected = ListGet(th[w].results, th[w].file_index))
    /\ [][\A w \in Workers :
            /\ (th[w].pc = "fs_read" /\ th'[w].pc # "fs_read")
               => /\ th'[w].pc = "fs_pick"
                  /\ th'[w].results = user_sessions[th[w].user].search_results
            /\ (th[w].pc = "fs_pick" /\ th'[w].pc # "fs_pick")
               => LET i == th[w].file_index
                      n == Len(th[w].results)
                  IN  /\ "invalid" \in th'[w].calls <=> i >= n
                      /\ th'[w].calls = {"selerr"}
                            <=> (i < n /\ ~ListIndexValid(i, n))
            /\ (/\ th[w].pc \in {"fs_download", "fs_send"}
                /\ th'[w].pc \in {"fs_download", "fs_send"})
               => /\ th'[w].selected = th[w].selected
                  /\ th'[w].results = th[w].results
                  /\ th'[w].file_index = th[w].file_index]_vars

\* C20 witness: the handler is about to send the second entry of the
\* two-entry list it read, while the session now holds a one-entry list, in
\* which its index would be out of range
C20_Witness ==
    /\ th["w1"].pc = "fs_send"
    /\ th["w1"].file_index = 1
    /\ Len(th["w1"].results) = 2
    /\ th["w1"].selected = th["w1"].results[2]
    /\ Len(user_sessions["u1"].search_results) = 1

\* the entries that the searches of user u have stored in u's session
StoredEntries(u) == UNION {{list[k] : k \in DOMAIN list} : list \in stored[u]}

\* the session entry of user v, if there is one
EntryOf(sessions, v) == IF v \in DOMAIN sessions THEN {sessions[v]} ELSE {}

\* C21: a document is only sent by the send step of a file selection of user
\* u, from a file that a successful download wrote, downloaded from the url
\* of the entry the handler picked, and that entry belongs to a result list
\* that an earlier search of u stored in u's session, so that no document goes
\* out before a non-empty search of u; a file selection of u reads the list
\* of u's own entry, and the entry of a user only changes by the store of a
\* search of that user.
C21_DocumentsFromOwnSession ==
    /\ [](\A w \in Workers :
            th[w].pc \in {"fs_download", "fs_send"} =>
               th[w].selected \in StoredEntries(th[w].user))
    /\ [][/\ \A w \in Workers :
               /\ (th'[w].sent /\ ~th[w].sent)
                  => /\ th[w].pc = "fs_send"
                     /\ th'[w].user = th[w].user
                     /\ th[w].file_path # NoPath
                     /\ th[w].file_path \in disk
                     /\ th[w].url = th[w].selected.url
                     /\ \E e \in StoredEntries(th[w].user) : e.url = th[w].url
               /\ (TakesFileCallback(w) /\ th'[w].pc = "fs_download")
                  => th'[w].results =
                        user_sessions[th'[w].user].search_results
          /\ \A v \in Users :
               EntryOf(user_sessions', v) # EntryOf(user_sessions, v)
               => \E w \in Workers :
                     /\ StoreStep(w)
                     /\ th[w].user = v
                     /\ th[w].results # <<>>
                     /\ user_sessions'[v] = SearchRecord(th[w])]_vars

\* C21 witness: both users have searched and hold different lists, and a
\* file selection of u2 has sent its document
C21_Witness ==
    \E w \in Workers :
       /\ th[w].pc = "done"
       /\ th[w].kind = "cb"
       /\ th[w].user = "u2"
       /\ th[w].sent
       /\ "document" \in th[w].calls
       /\ stored["u1"] # {}
       /\ stored["u2"] # {}
       /\ stored["u1"] # stored["u2"]

====
